---- MODULE Spec2Model ----
(***************************************************************************)
(* Model of the agricultural data manager (src/data_manager.py) and of the *)
(* Bokeh dashboard built on it (src/dashboard.py).                         *)
(*                                                                         *)
(* Tables (pandas DataFrames) are records [cols, index, rows]: the set of  *)
(* column names, the name of the index ("range" for the default integer    *)
(* index, "date" once set_index('date') has run) and the rows in order.    *)
(* Numbers are fixed point: sensor values are small integers, the          *)
(* standardised values of the feature table are in units of 1/Scale.       *)
(* A month is MonthLen days long, so that a small range of days covers     *)
(* several months.                                                         *)
(***************************************************************************)
EXTENDS Integers, Sequences, FiniteSets, TLC

\* ---------------------------------------------------------------- bounds
MaxDay == 3
MaxMon == 2
MaxWeather == 1
MaxSoil == 2
MaxYield == 2
MaxPrepare == 2
MaxRisk == 2
MaxRiskCalls == 2

\* ------------------------------------------------------- scaled constants
MonthLen == 2
Scale == 10
Null == -9999

None == [isNone |-> TRUE]
NoExc == "none"

Parcels == {"P001", "P002"}
\* Python compares str values lexicographically: "P001" < "P002"
ParcelOrder == <<"P001", "P002">>
PidRank(p) == CHOOSE i \in 1..Len(ParcelOrder) : ParcelOrder[i] = p
Days == 1..MaxDay

\* --------------------------------------------------------------- helpers
Range(s) == {s[i] : i \in 1..Len(s)}
SeqsUpTo(S, n) == UNION {[1..k -> S] : k \in 0..n}
DateSorted(s) == \A i \in 1..(Len(s) - 1) : s[i].date <= s[i + 1].date

RECURSIVE SumSeq(_)
SumSeq(s) == IF s = <<>> THEN 0 ELSE Head(s) + SumSeq(Tail(s))

RECURSIVE IsqrtIter(_, _, _)
IsqrtIter(n, lo, hi) ==
    IF lo >= hi THEN lo
    ELSE LET mid == (lo + hi + 1) \div 2
         IN IF mid * mid <= n THEN IsqrtIter(n, mid, hi)
            ELSE IsqrtIter(n, lo, mid - 1)
Isqrt(n) == IsqrtIter(n, 0, n)

\* DataFrame.sort_values(c): ascending on column c, equal keys keep their order
RECURSIVE SortValues(_, _)
SortValues(rows, c) ==
    IF rows = <<>> THEN <<>>
    ELSE LET init == SortValues(SubSeq(rows, 1, Len(rows) - 1), c)
             r == rows[Len(rows)]
             k == Cardinality({i \in 1..Len(init) : init[i][c] <= r[c]})
         IN SubSeq(init, 1, k) \o <<r>> \o SubSeq(init, k + 1, Len(init))

\* ------------------------------------------------------ the four CSV files
MonCols == {"parcelle_id", "date", "ndvi", "temperature", "stress_hydrique"}
WeatherCols == {"date", "pluie"}
SoilCols == {"parcelle_id", "ph"}
YieldCols == {"parcelle_id", "date", "rendement_estime"}

Table(cols, rows) == [cols |-> cols, index |-> "range", rows |-> rows]

\* a row of a file that lacks some columns carries Null in their place
Blank(row, cols) == [c \in DOMAIN row |-> IF c \in cols THEN row[c] ELSE Null]
BlankRows(rows, cols) == [i \in 1..Len(rows) |-> Blank(rows[i], cols)]

\* what a file holds for a parcel on a day is fixed, so a value in the merged
\* table tells which record it came from
PidOffset(p) == 2 * (PidRank(p) - 1)
MonRow(p, d) == [parcelle_id |-> p, date |-> d,
                 ndvi |-> 2 * d + PidOffset(p),
                 temperature |-> 15 + 3 * d + PidOffset(p),
                 stress_hydrique |-> d + PidOffset(p)]
MonRows == {MonRow(p, d) : p \in Parcels, d \in Days}
WeatherRows == {[date |-> d, pluie |-> 1 + 2 * d] : d \in Days}
SoilRows == {[parcelle_id |-> p, ph |-> 5 + PidOffset(p)] : p \in Parcels}
YieldRow(p, d) == [parcelle_id |-> p, date |-> d,
                   rendement_estime |-> 30 + 10 * d + PidOffset(p)]
YieldRows == {YieldRow(p, d) : p \in Parcels, d \in Days}

\* reference files: two parcels, two months, every join finds its partner
RefMonRows == <<MonRow("P002", 1), MonRow("P001", 1), MonRow("P001", 3)>>
RefWeatherRows == <<[date |-> 1, pluie |-> 3], [date |-> 3, pluie |-> 7]>>
RefSoilRows == <<[parcelle_id |-> "P001", ph |-> 5], [parcelle_id |-> "P002", ph |-> 7]>>
RefYieldRows == <<YieldRow("P001", 1), YieldRow("P002", 2), YieldRow("P001", 3)>>

MonSchemas == {MonCols \ {"ndvi"}, MonCols \ {"temperature", "stress_hydrique"}}
MonFiles ==
    {Table(MonCols, s) : s \in {t \in SeqsUpTo(MonRows, MaxMon) : DateSorted(t)}}
    \cup {Table(cs, BlankRows(RefMonRows, cs)) : cs \in MonSchemas}
WeatherFiles ==
    {Table(WeatherCols, s) : s \in {t \in SeqsUpTo(WeatherRows, MaxWeather) : DateSorted(t)}}
SoilFiles == {Table(SoilCols, s) : s \in SeqsUpTo(SoilRows, MaxSoil)}
YieldFiles ==
    {Table(YieldCols, s) : s \in {t \in SeqsUpTo(YieldRows, MaxYield) : DateSorted(t)}}
    \cup {Table(YieldCols \ {"rendement_estime"},
                BlankRows(RefYieldRows, YieldCols \ {"rendement_estime"}))}

RefDisk == [monitoring |-> Table(MonCols, RefMonRows),
            weather |-> Table(WeatherCols, RefWeatherRows),
            soil |-> Table(SoilCols, RefSoilRows),
            yield |-> Table(YieldCols, RefYieldRows)]
\* the contents of the data directory: one file varies, the others are the
\* reference files
Disks ==
    {[RefDisk EXCEPT !.monitoring = f] : f \in MonFiles}
    \cup {[RefDisk EXCEPT !.weather = f] : f \in WeatherFiles}
    \cup {[RefDisk EXCEPT !.soil = f] : f \in SoilFiles}
    \cup {[RefDisk EXCEPT !.yield = f] : f \in YieldFiles}

\* ------------------------------------------------- AgriculturalDataManager
\* __init__: the four tables are absent
NewManager == [monitoring_data |-> None, weather_data |-> None,
               soil_data |-> None, yield_history |-> None]

\* load_data: four reads in sequence, each assigned as soon as it is read;
\* failAt = k > 0 means the k-th read raises, failAt = 0 that none does
load_data(self, files, failAt) ==
    [self |-> [monitoring_data |-> IF failAt = 1 THEN self.monitoring_data
                                   ELSE files.monitoring,
               weather_data |-> IF failAt \in 1..2 THEN self.weather_data
                                ELSE files.weather,
               soil_data |-> IF failAt \in 1..3 THEN self.soil_data
                             ELSE files.soil,
               yield_history |-> IF failAt \in 1..4 THEN self.yield_history
                                 ELSE files.yield],
     exc |-> IF failAt = 0 THEN NoExc ELSE "FileNotFoundError"]

\* the tables a load_data call with this failAt has assigned
ReadBy(failAt) ==
    IF failAt = 0 THEN {"monitoring_data", "weather_data", "soil_data", "yield_history"}
    ELSE IF failAt = 1 THEN {}
    ELSE IF failAt = 2 THEN {"monitoring_data"}
    ELSE IF failAt = 3 THEN {"monitoring_data", "weather_data"}
    ELSE {"monitoring_data", "weather_data", "soil_data"}

\* ----------------------------------------------------- prepare_features
\* every row of the merged table has these fields; a column that is not in
\* the table's cols holds Null; "index" is the row label
FeatureFields == MonCols \cup {"pluie", "ph", "rendement_estime", "index",
                              "temp_bin", "stress_bin"}

\* pd.Grouper(freq='M'): a date is labelled with the last day of its month
MonthEnd(d) == ((d + MonthLen - 1) \div MonthLen) * MonthLen

\* select_dtypes(include=[np.number]): all but the identifier and the date
NumericCols(cols) == cols \ {"parcelle_id", "date"}

\* mean of a column; NaN values are skipped, no value gives NaN
Mean(vals) ==
    LET nn == SelectSeq(vals, LAMBDA v : v # Null)
    IN IF nn = <<>> THEN Null ELSE SumSeq(nn) \div Len(nn)

ColumnOf(rows, c) == [i \in 1..Len(rows) |-> rows[i][c]]

\* DataFrame.set_index('date', inplace=True)
set_index(t) == [t EXCEPT !.cols = t.cols \ {"date"}, !.index = "date"]

GroupRank(k) == k[1] * (Len(ParcelOrder) + 1) + PidRank(k[2])
RECURSIVE GroupsInOrder(_)
GroupsInOrder(K) ==
    IF K = {} THEN <<>>
    ELSE LET m == CHOOSE k \in K : \A j \in K : GroupRank(k) <= GroupRank(j)
         IN <<m>> \o GroupsInOrder(K \ {m})

\* monitoring_data[numeric + parcelle_id].groupby([Grouper('M'), 'parcelle_id'])
\*     .mean().reset_index(): one row per observed (month, parcel)
MonitoringMonthly(mon) ==
    LET num == NumericCols(mon.cols)
        keys == {<<MonthEnd(r.date), r.parcelle_id>> : r \in Range(mon.rows)}
        ordered == GroupsInOrder(keys)
        Members(k) == SelectSeq(mon.rows, LAMBDA r :
                          MonthEnd(r.date) = k[1] /\ r.parcelle_id = k[2])
        RowOf(k) == [c \in FeatureFields |->
                       IF c = "parcelle_id" THEN k[2]
                       ELSE IF c = "date" THEN k[1]
                       ELSE IF c \in num THEN Mean(ColumnOf(Members(k), c))
                       ELSE Null]
    IN [cols |-> num \cup {"parcelle_id", "date"},
        rows |-> [i \in 1..Len(ordered) |-> RowOf(ordered[i])]]

\* weather_data[numeric].groupby(Grouper('M')).mean().reset_index(): one row
\* per month from the first to the last month, NaN for a month without data
WeatherMonthly(wea) ==
    LET num == NumericCols(wea.cols)
        months == {MonthEnd(r.date) : r \in Range(wea.rows)}
        lo == CHOOSE m \in months : \A j \in months : m <= j
        hi == CHOOSE m \in months : \A j \in months : m >= j
        Members(m) == SelectSeq(wea.rows, LAMBDA r : MonthEnd(r.date) = m)
        RowOf(m) == [c \in num \cup {"date"} |->
                       IF c = "date" THEN m ELSE Mean(ColumnOf(Members(m), c))]
    IN [cols |-> num \cup {"date"},
        rows |-> IF months = {} THEN <<>>
                 ELSE [i \in 1..((hi - lo) \div MonthLen + 1) |->
                          RowOf(lo + (i - 1) * MonthLen)]]

LastIndex(S) == IF S = {} THEN 0 ELSE CHOOSE j \in S : \A k \in S : k <= j

\* pd.merge_asof(left, right, on='date'): each left row takes the columns of
\* the last right row whose date is not after its own
MergeAsofWeather(left, right) ==
    LET num == right.cols \ {"date"}
        Match(r) == LastIndex({j \in 1..Len(right.rows) : right.rows[j].date <= r.date})
        RowOf(r) == [c \in FeatureFields |->
                       IF c \in num
                       THEN IF Match(r) = 0 THEN Null ELSE right.rows[Match(r)][c]
                       ELSE r[c]]
    IN [cols |-> left.cols \cup num,
        rows |-> [i \in 1..Len(left.rows) |-> RowOf(left.rows[i])]]

RECURSIVE Concat(_)
Concat(ss) == IF ss = <<>> THEN <<>> ELSE Head(ss) \o Concat(Tail(ss))

\* pd.merge(combined, soil, how='left', on='parcelle_id'): left order kept,
\* one output row per matching soil row, NaN soil columns without a match
MergeSoil(left, soil) ==
    LET attrs == soil.cols \ {"parcelle_id"}
        Matches(r) == SelectSeq(soil.rows, LAMBDA s : s.parcelle_id = r.parcelle_id)
        With(r, s) == [c \in FeatureFields |-> IF c \in attrs THEN s[c] ELSE r[c]]
        Without(r) == [c \in FeatureFields |-> IF c \in attrs THEN Null ELSE r[c]]
        RowsOf(r) == IF Matches(r) = <<>> THEN <<Without(r)>>
                     ELSE [j \in 1..Len(Matches(r)) |-> With(r, Matches(r)[j])]
    IN [cols |-> left.cols \cup attrs,
        rows |-> Concat([i \in 1..Len(left.rows) |-> RowsOf(left.rows[i])])]

\* a merge_asof on the date alone, without by='parcelle_id'
MergeAsofYieldAnyParcel(left, yld) ==
    LET l == SortValues(left.rows, "date")
        right == SortValues(yld.rows, "date")
        Match(r) == LastIndex({j \in 1..Len(right) : right[j].date <= r.date})
        RowOf(i) == [c \in FeatureFields |->
                       IF c = "rendement_estime"
                       THEN IF Match(l[i]) = 0 THEN Null
                            ELSE right[Match(l[i])].rendement_estime
                       ELSE IF c = "index" THEN i - 1
                       ELSE l[i][c]]
    IN [cols |-> left.cols \cup {"rendement_estime"},
        rows |-> [i \in 1..Len(l) |-> RowOf(i)]]

\* pd.merge_asof(combined.sort_values('date'),
\*     yield_history[[date, parcelle_id, rendement_estime]].sort_values('date'),
\*     on='date', by='parcelle_id'); the result has a fresh range index
MergeAsofYield(left, yld) ==
    LET l == SortValues(left.rows, "date")
        right == SortValues(yld.rows, "date")
        Match(r) == LastIndex({j \in 1..Len(right) :
                        /\ right[j].parcelle_id = r.parcelle_id
                        /\ right[j].date <= r.date})
        RowOf(i) == [c \in FeatureFields |->
                       IF c = "rendement_estime"
                       THEN IF Match(l[i]) = 0 THEN Null
                            ELSE right[Match(l[i])].rendement_estime
                       ELSE IF c = "index" THEN i - 1
                       ELSE l[i][c]]
    IN [cols |-> left.cols \cup {"rendement_estime"},
        rows |-> [i \in 1..Len(l) |-> RowOf(i)]]

\* a dropna that drops nothing
dropnaKeepsAll(t) == t

\* DataFrame.dropna(): a row with a NaN in any column goes (the files give
\* every row its parcelle_id, so that column is never NaN)
dropna(t) ==
    [t EXCEPT !.rows = SelectSeq(t.rows, LAMBDA r :
                           \A c \in t.cols \ {"parcelle_id"} : r[c] # Null)]

\* StandardScaler().fit_transform on one column: (x - mean) / std with the
\* population std, a constant column maps to 0, NaN is left alone; the result
\* is in units of 1/Scale, rounded towards zero
Standardize(vals, x) ==
    LET nn == SelectSeq(vals, LAMBDA v : v # Null)
        n == Len(nn)
        S == SumSeq(nn)
        Q == SumSeq([i \in 1..n |-> nn[i] * nn[i]])
        V == n * Q - S * S
        d == n * x - S
        mag == Isqrt((d * d * Scale * Scale) \div V)
    IN IF x = Null THEN Null
       ELSE IF V = 0 THEN 0
       ELSE IF d < 0 THEN 0 - mag ELSE mag

fit_transform(t) ==
    LET num == NumericCols(t.cols)
    IN [t EXCEPT !.rows = [i \in 1..Len(t.rows) |->
            [c \in FeatureFields |->
                IF c \in num THEN Standardize(ColumnOf(t.rows, c), t.rows[i][c])
                ELSE t.rows[i][c]]]]

Raised(self, e) == [self |-> self, exc |-> e, val |-> None, merged |-> None]

\* prepare_features: the date columns are touched first, then monitoring
\* and weather are re-indexed in place, then the table is merged, cleaned
\* and scaled; every error is logged and re-raised.  merged is combined_data
\* as it stands after dropna, before the scaler overwrites the numeric columns
prepare_features(self) ==
    IF self.monitoring_data = None THEN Raised(self, "TypeError")
    ELSE IF "date" \notin self.monitoring_data.cols THEN Raised(self, "KeyError")
    ELSE IF self.weather_data = None THEN Raised(self, "TypeError")
    ELSE IF "date" \notin self.weather_data.cols THEN Raised(self, "KeyError")
    ELSE IF self.yield_history = None THEN Raised(self, "TypeError")
    ELSE
      LET self2 == [self EXCEPT !.monitoring_data = set_index(@),
                                !.weather_data = set_index(@)]
          monitoring_monthly == MonitoringMonthly(self2.monitoring_data)
          weather_monthly == WeatherMonthly(self2.weather_data)
          combined1 == MergeAsofWeather(
                           [monitoring_monthly EXCEPT !.rows = SortValues(@, "date")],
                           [weather_monthly EXCEPT !.rows = SortValues(@, "date")])
          combined2 == MergeSoil(combined1, self2.soil_data)
          combined3 == MergeAsofYield(combined2, self2.yield_history)
          combined4 == dropna(combined3)
      IN IF self2.soil_data = None THEN Raised(self2, "TypeError")
         ELSE IF "rendement_estime" \notin self2.yield_history.cols
              THEN Raised(self2, "KeyError")
         ELSE IF combined4.rows = <<>> THEN Raised(self2, "ValueError")
         ELSE [self |-> self2, exc |-> NoExc,
               val |-> [cols |-> combined4.cols, index |-> "range",
                        rows |-> fit_transform(combined4).rows],
               merged |-> combined4]

\* ---------------------------------------------------- AgriculturalDashboard
\* values handed back to callers
Figure(name) == [kind |-> "figure", name |-> name]
ListOf(s) == [kind |-> "list", val |-> s]
Column(children) == [kind |-> "column", children |-> children]

\* Select(value=..., options=...) and select_widget.js_on_change("value", cb);
\* a callback is named after the chart that registered it
Select(value, options) == [value |-> value, options |-> options, callbacks |-> {}]
js_on_change(w, cb) == [w EXCEPT !.callbacks = @ \cup {cb}]

\* ColumnDataSource(df): one list per column, plus the index
ColumnDataSource(rows, cols) == [c \in cols \cup {"index"} |-> ColumnOf(rows, c)]

\* __init__, before create_data_sources runs
NewDashboard == [full_yield_source |-> None, full_ndvi_source |-> None,
                 yield_source |-> None, ndvi_source |-> None,
                 stress_source |-> None, full_stress_source |-> None,
                 features |-> None]

RequiredColumns == {"parcelle_id", "date", "rendement_estime", "ndvi"}

\* features[cols].dropna()
View(features, cols) ==
    SelectSeq(features.rows, LAMBDA r : \A c \in cols \ {"parcelle_id"} : r[c] # Null)

\* an except branch that re-raises, as the one of prepare_features does
CreateDataSourcesExceptReraise(self, dm, e) ==
    [self |-> [self EXCEPT !.yield_source = None, !.ndvi_source = None],
     dm |-> dm, exc |-> e]

\* the except branch of create_data_sources: log, clear both sources, return
CreateDataSourcesExcept(self, dm, e) ==
    [self |-> [self EXCEPT !.yield_source = None, !.ndvi_source = None],
     dm |-> dm, exc |-> NoExc]

create_data_sources(self, dm, files, failAt) ==
    LET l == load_data(dm, files, failAt)
        p == prepare_features(l.self)
        self1 == [self EXCEPT !.features = p.val]
        missing_columns == RequiredColumns \ p.val.cols
        yield_cols == {"parcelle_id", "date", "rendement_estime"}
        ndvi_cols == {"parcelle_id", "date", "ndvi"}
        yield_data == View(p.val, yield_cols)
        ndvi_data == View(p.val, ndvi_cols)
    IN IF l.exc # NoExc THEN CreateDataSourcesExcept(self, l.self, l.exc)
       ELSE IF p.exc # NoExc THEN CreateDataSourcesExcept(self, p.self, p.exc)
       ELSE IF missing_columns # {}
            THEN CreateDataSourcesExcept(self1, p.self, "ValueError")
       ELSE [self |-> [self1 EXCEPT
                         !.yield_source = IF yield_data = <<>> THEN None
                                          ELSE ColumnDataSource(yield_data, yield_cols),
                         !.ndvi_source = IF ndvi_data = <<>> THEN None
                                         ELSE ColumnDataSource(ndvi_data, ndvi_cols)],
             dm |-> p.self, exc |-> NoExc]

\* an except branch that lets the error through
ChartExceptReraise(r, e) == [r EXCEPT !.ret = None, !.exc = e]

\* the except branch shared by the four chart constructors: log, return None
ChartExcept(r, e) == [r EXCEPT !.ret = None, !.exc = NoExc]

\* create_yield_history_plot; raises: the plotting library raises while the
\* figure, its glyphs or the CustomJS callback are built
create_yield_history_plot(self, select_widget, raises) ==
    LET r == [self |-> self, select |-> select_widget, ret |-> None, exc |-> NoExc]
    IN IF raises THEN ChartExcept(r, "BokehError")
       ELSE [r EXCEPT !.select = js_on_change(select_widget, "yield"),
                      !.ret = Figure("yield")]

create_ndvi_temporal_plot(self, select_widget, raises) ==
    LET r == [self |-> self, select |-> select_widget, ret |-> None, exc |-> NoExc]
    IN IF raises THEN ChartExcept(r, "BokehError")
       ELSE [r EXCEPT !.select = js_on_change(select_widget, "ndvi"),
                      !.ret = Figure("ndvi")]

TempBinWidth == 5
\* (temperature // 5) * 5 on fixed point: 5 is exact in binary floating point
temp_bin(t) == (t \div (TempBinWidth * Scale)) * (TempBinWidth * Scale)

\* x // 0.1 on float64, for x the double nearest to k tenths, -30 <= k <= 30
\* (standardised values stay well inside): the double 0.1 lies above one
\* tenth, so the quotient of these k falls just short of k and floors to k - 1
\* (1.0 // 0.1 is 9.0, 0.5 // 0.1 is 4.0, 0.3 // 0.1 is 2.0)
ShortTenths == {-27, -22, -11, 3, 5, 6, 7, 9, 10, 12, 13, 14, 15, 17, 18, 19,
                20, 21, 23, 24, 25, 26, 28, 29, 30}
FloorDivTenth(k) == IF k \in ShortTenths THEN k - 1 ELSE k
\* (stress_hydrique // 0.1) * 0.1, in tenths
stress_bin(x) == FloorDivTenth(x) * (Scale \div 10)

BinLess(a, b) ==
    \/ PidRank(a[1]) < PidRank(b[1])
    \/ a[1] = b[1] /\ a[2] < b[2]
    \/ a[1] = b[1] /\ a[2] = b[2] /\ a[3] < b[3]
RECURSIVE BinsInOrder(_)
BinsInOrder(K) ==
    IF K = {} THEN <<>>
    ELSE LET m == CHOOSE k \in K : \A j \in K \ {k} : BinLess(k, j)
         IN <<m>> \o BinsInOrder(K \ {m})

\* features with the two bin columns added in place
WithBins(features) ==
    LET rows == features.rows
    IN [cols |-> features.cols \cup {"temp_bin", "stress_bin"},
        index |-> features.index,
        rows |-> [i \in 1..Len(rows) |->
                    [c \in FeatureFields |->
                       IF c = "temp_bin" THEN temp_bin(rows[i].temperature)
                       ELSE IF c = "stress_bin" THEN stress_bin(rows[i].stress_hydrique)
                       ELSE rows[i][c]]]]

\* features.groupby([parcelle_id, temp_bin, stress_bin]).size()
\*     .reset_index(name='count'), then norm_count = count / count.max()
StressMatrix(features) ==
    LET rows == features.rows
        keys == {<<r.parcelle_id, r.temp_bin, r.stress_bin>> : r \in Range(rows)}
        ordered == BinsInOrder(keys)
        Count(k) == Cardinality({i \in 1..Len(rows) :
                        <<rows[i].parcelle_id, rows[i].temp_bin, rows[i].stress_bin>> = k})
        top == CHOOSE c \in {Count(k) : k \in keys} : \A k \in keys : Count(k) <= c
    IN [i \in 1..Len(ordered) |->
          [index |-> i - 1,
           parcelle_id |-> ordered[i][1],
           temp_bin |-> ordered[i][2],
           stress_bin |-> ordered[i][3],
           count |-> Count(ordered[i]),
           norm_count |-> (Count(ordered[i]) * Scale) \div top]]

MatrixCols == {"parcelle_id", "temp_bin", "stress_bin", "count", "norm_count"}

create_stress_matrix(self, select_widget, raises) ==
    LET r == [self |-> self, select |-> select_widget, ret |-> None, exc |-> NoExc]
        binned == WithBins(self.features)
        matrix == StressMatrix(binned)
        self2 == [self EXCEPT !.features = binned,
                              !.stress_source = ColumnDataSource(matrix, MatrixCols),
                              !.full_stress_source = ColumnDataSource(matrix, MatrixCols)]
    IN IF self.features = None THEN ChartExcept(r, "AttributeError")
       ELSE IF \/ "temperature" \notin self.features.cols
               \/ "stress_hydrique" \notin self.features.cols
            THEN r
       ELSE IF raises THEN ChartExcept([r EXCEPT !.self = self2], "BokehError")
       ELSE [r EXCEPT !.self = self2,
                      !.select = js_on_change(select_widget, "stress"),
                      !.ret = Figure("stress")]

\* ColumnDataSource(data={"date": [], "actual_yield": [], "predicted_yield": []})
EmptyPrediction == [date |-> <<>>, actual_yield |-> <<>>, predicted_yield |-> <<>>]

\* create_yield_prediction_plot; pred is the chart's own data source
create_yield_prediction_plot(self, select_widget, raises) ==
    LET r == [self |-> self, select |-> select_widget, ret |-> None,
              exc |-> NoExc, pred |-> None]
    IN IF raises THEN ChartExcept(r, "BokehError")
       ELSE [r EXCEPT !.select = js_on_change(select_widget, "pred"),
                      !.ret = Figure("pred"),
                      !.pred = EmptyPrediction]

\* Series.unique(): first occurrences, in order of appearance
RECURSIVE unique(_)
unique(s) ==
    IF s = <<>> THEN <<>>
    ELSE LET init == unique(SubSeq(s, 1, Len(s) - 1))
         IN IF s[Len(s)] \in Range(init) THEN init ELSE Append(init, s[Len(s)])

\* the identifiers as unique() gives them, unsorted
sortedAsGiven(s) == s

\* sorted() on parcel identifiers
RECURSIVE sorted(_)
sorted(s) ==
    IF s = <<>> THEN <<>>
    ELSE LET init == sorted(SubSeq(s, 1, Len(s) - 1))
             x == s[Len(s)]
             k == Cardinality({i \in 1..Len(init) : PidRank(init[i]) <= PidRank(x)})
         IN SubSeq(init, 1, k) \o <<x>> \o SubSeq(init, k + 1, Len(init))

\* the except branch of get_parcelle_options: log, return []
OptionsExcept(e) == [ret |-> ListOf(<<>>), exc |-> NoExc]

get_parcelle_options(dm) ==
    IF dm.monitoring_data = None THEN OptionsExcept("ValueError")
    ELSE [ret |-> ListOf(sorted(unique(ColumnOf(dm.monitoring_data.rows, "parcelle_id")))),
          exc |-> NoExc]

\* the except branch of create_layout: log, return None
LayoutExcept(r, e) == [r EXCEPT !.ret = None, !.exc = NoExc]

\* create_layout builds the selector, the yield and the NDVI chart and stacks
\* what was built; raisesColumn: bokeh.layouts.column raises
create_layout(self, dm, raisesYield, raisesNdvi, raisesColumn) ==
    LET parcels == get_parcelle_options(dm).ret.val
        select_widget == Select(parcels[1], parcels)
        y == create_yield_history_plot(self, select_widget, raisesYield)
        n == create_ndvi_temporal_plot(y.self, y.select, raisesNdvi)
        plots == (IF y.ret # None THEN <<"yield">> ELSE <<>>)
                 \o (IF n.ret # None THEN <<"ndvi">> ELSE <<>>)
        r == [self |-> n.self, select |-> n.select, ret |-> None, exc |-> NoExc]
    IN IF parcels = <<>>
       THEN [self |-> self, select |-> None, ret |-> None, exc |-> NoExc]
       ELSE IF plots = <<>> THEN r
       ELSE IF raisesColumn THEN LayoutExcept(r, "BokehError")
       ELSE [r EXCEPT !.ret = Column(<<"select">> \o plots)]

\* ------------------------------------------------- the CustomJS callbacks
\* positions of the rows of full whose parcelle_id is choix, ascending
Hits(full, choix) ==
    SelectSeq([i \in 1..Len(full["parcelle_id"]) |->
                  [pos |-> i, date |-> full["date"][i]]],
              LAMBDA h : full["parcelle_id"][h.pos] = choix)
HitsNoDate(full, choix) ==
    SelectSeq([i \in 1..Len(full["parcelle_id"]) |-> i],
              LAMBDA i : full["parcelle_id"][i] = choix)

\* full_source.data of an absent source throws before anything is changed
callback_yield(full, filt, choix) ==
    IF full = None \/ filt = None THEN filt
    ELSE LET indices == SortValues(Hits(full, choix), "date")
         IN [k \in DOMAIN filt |-> [j \in 1..Len(indices) |-> full[k][indices[j].pos]]]

callback_ndvi(full, filt, choix) ==
    IF full = None \/ filt = None THEN filt
    ELSE LET indices == HitsNoDate(full, choix)
         IN [k \in DOMAIN filt |-> [j \in 1..Len(indices) |-> full[k][indices[j]]]]

\* only temp_bin, stress_bin and norm_count are rebuilt
callback_stress(full, filt, choix) ==
    IF full = None \/ filt = None THEN filt
    ELSE LET indices == HitsNoDate(full, choix)
         IN [k \in DOMAIN filt |->
               IF k \in {"temp_bin", "stress_bin", "norm_count"}
               THEN [j \in 1..Len(indices) |-> full[k][indices[j]]]
               ELSE filt[k]]

\* pred = rendement_estime * (1 + 0.05 * (Math.random() - 0.5)); noise is
\* 0.05 * (random - 0.5) in thousandths
callback_pred(full, filt, choix, noise) ==
    IF full = None \/ filt = None THEN filt
    ELSE LET indices == HitsNoDate(full, choix)
             At(c, j) == full[c][indices[j]]
         IN [k \in DOMAIN filt |->
               IF k = "date" THEN [j \in 1..Len(indices) |-> At("date", j)]
               ELSE IF k = "actual_yield"
               THEN [j \in 1..Len(indices) |-> At("rendement_estime", j)]
               ELSE IF k = "predicted_yield"
               THEN [j \in 1..Len(indices) |->
                        (At("rendement_estime", j) * (1000 + noise)) \div 1000]
               ELSE filt[k]]
NoiseSamples == {-25, 0, 24}

\* a widget made by a caller who builds a chart without create_layout
CallerSelect == Select(ParcelOrder[1], ParcelOrder)

\* ------------------------------------------------ calculate_risk_metrics
\* stress_hydrique and biomasse_estimee are in tenths, risk_score in hundredths
RiskCols == {"parcelle_id", "date", "stress_hydrique", "biomasse_estimee"}
RiskRows == {[parcelle_id |-> p, date |-> d, stress_hydrique |-> x,
              biomasse_estimee |-> b, risk_score |-> Null] :
                p \in Parcels, d \in Days, x \in {4, 7}, b \in {5, 20}}
RiskInputs == {Table(RiskCols, rows) : rows \in SeqsUpTo(RiskRows, MaxRisk)}

\* the weights of the two terms exchanged
RiskScoreSwapped(row) == 3 * row.stress_hydrique + 5 * row.biomasse_estimee

\* data['stress_hydrique'] * 0.5 + data['biomasse_estimee'] * 0.3
RiskScore(row) == 5 * row.stress_hydrique + 3 * row.biomasse_estimee

\* the column is written into the caller's table, three columns are returned
calculate_risk_metrics(data) ==
    LET data2 == [data EXCEPT
                    !.cols = @ \cup {"risk_score"},
                    !.rows = [i \in 1..Len(data.rows) |->
                                [data.rows[i] EXCEPT !.risk_score = RiskScore(data.rows[i])]]]
    IN [data |-> data2,
        ret |-> [cols |-> {"parcelle_id", "date", "risk_score"},
                 index |-> data2.index,
                 rows |-> [i \in 1..Len(data2.rows) |->
                             [parcelle_id |-> data2.rows[i].parcelle_id,
                              date |-> data2.rows[i].date,
                              risk_score |-> data2.rows[i].risk_score]]]]

\* ------------------------------------------------------------ state machine
VARIABLES disk, data_manager, dashboard, select, prediction_source, layout,
          lastCall, ret, exc, fresh, sinceLoad, cdsLog, layoutLog,
          riskData, riskRets

vars == <<disk, data_manager, dashboard, select, prediction_source, layout,
          lastCall, ret, exc, fresh, sinceLoad, cdsLog, layoutLog,
          riskData, riskRets>>
ui == <<select, prediction_source, layout, layoutLog>>
risk == <<riskData, riskRets>>

Init ==
    /\ disk \in Disks
    /\ data_manager = NewManager
    /\ dashboard = None
    /\ select = None
    /\ prediction_source = None
    /\ layout = None
    /\ lastCall = "AgriculturalDataManager"
    /\ ret = None
    /\ exc = NoExc
    /\ fresh = {}
    /\ sinceLoad = <<>>
    /\ cdsLog = None
    /\ layoutLog = None
    /\ riskData = None
    /\ riskRets = <<>>

\* The entry points (data_manager.py 184-191, dashboard.py 410-418) catch
\* nothing: an exception that leaves load_data or prepare_features ends the
\* run.  They work on the manager first, then construct the dashboard and ask
\* it for one thing (the layout in dashboard.py 414, a chart or the parcel
\* options for another caller); a chart or layout that was handed out is
\* shown, and from then on only the browser acts, on the widget it was built
\* with.
Running == exc = NoExc
ManagerPhase == Running /\ dashboard = None
PythonPhase == Running /\ dashboard # None /\ lastCall = "AgriculturalDashboard"
BrowserPhase == Running /\ dashboard # None /\ select # None

\* a caller runs data_manager.load_data() (data_manager.py 188, dashboard.py 412)
LoadData(failAt) ==
    LET r == load_data(data_manager, disk, failAt)
    IN /\ ManagerPhase
       /\ data_manager' = r.self
       /\ lastCall' = "load_data"
       /\ ret' = None
       /\ exc' = r.exc
       /\ fresh' = ReadBy(failAt)
       /\ sinceLoad' = <<>>
       /\ UNCHANGED <<disk, dashboard, ui, cdsLog, risk>>

\* a caller runs data_manager.prepare_features() (data_manager.py 191)
PrepareFeatures ==
    LET r == prepare_features(data_manager)
    IN /\ ManagerPhase
       /\ Len(sinceLoad) < MaxPrepare
       /\ data_manager' = r.self
       /\ lastCall' = "prepare_features"
       /\ ret' = r.val
       /\ exc' = r.exc
       /\ sinceLoad' = Append(sinceLoad, [exc |-> r.exc, val |-> r.val,
                                          merged |-> r.merged])
       /\ UNCHANGED <<disk, dashboard, ui, fresh, cdsLog, risk>>

\* AgriculturalDashboard(mgr): the fields are cleared, create_data_sources runs
NewAgriculturalDashboard(failAt) ==
    LET r == create_data_sources(NewDashboard, data_manager, disk, failAt)
        l == load_data(data_manager, disk, failAt)
        p == prepare_features(l.self)
    IN /\ ManagerPhase
       /\ dashboard' = r.self
       /\ data_manager' = r.dm
       /\ lastCall' = "AgriculturalDashboard"
       /\ ret' = None
       /\ exc' = r.exc
       /\ fresh' = ReadBy(failAt)
       /\ sinceLoad' = IF l.exc = NoExc
                       THEN <<[exc |-> p.exc, val |-> p.val, merged |-> p.merged]>>
                       ELSE <<>>
       /\ cdsLog' = [load |-> l.exc,
                     prepare |-> IF l.exc = NoExc THEN p.exc ELSE "not run",
                     missing |-> IF l.exc = NoExc /\ p.exc = NoExc
                                 THEN RequiredColumns \ p.val.cols ELSE {}]
       /\ UNCHANGED <<disk, ui, risk>>

CreateYieldHistoryPlot(raises) ==
    LET r == create_yield_history_plot(dashboard, CallerSelect, raises)
    IN /\ PythonPhase
       /\ dashboard' = r.self
       /\ select' = IF r.ret = None THEN None ELSE r.select
       /\ lastCall' = "create_yield_history_plot"
       /\ ret' = r.ret
       /\ exc' = r.exc
       /\ UNCHANGED <<disk, data_manager, prediction_source, layout, layoutLog, fresh, sinceLoad, cdsLog, risk>>

CreateNdviTemporalPlot(raises) ==
    LET r == create_ndvi_temporal_plot(dashboard, CallerSelect, raises)
    IN /\ PythonPhase
       /\ dashboard' = r.self
       /\ select' = IF r.ret = None THEN None ELSE r.select
       /\ lastCall' = "create_ndvi_temporal_plot"
       /\ ret' = r.ret
       /\ exc' = r.exc
       /\ UNCHANGED <<disk, data_manager, prediction_source, layout, layoutLog, fresh, sinceLoad, cdsLog, risk>>

CreateStressMatrix(raises) ==
    LET r == create_stress_matrix(dashboard, CallerSelect, raises)
    IN /\ PythonPhase
       /\ dashboard' = r.self
       /\ select' = IF r.ret = None THEN None ELSE r.select
       /\ lastCall' = "create_stress_matrix"
       /\ ret' = r.ret
       /\ exc' = r.exc
       /\ UNCHANGED <<disk, data_manager, prediction_source, layout, layoutLog, fresh, sinceLoad, cdsLog, risk>>

CreateYieldPredictionPlot(raises) ==
    LET r == create_yield_prediction_plot(dashboard, CallerSelect, raises)
    IN /\ PythonPhase
       /\ dashboard' = r.self
       /\ select' = IF r.ret = None THEN None ELSE r.select
       /\ prediction_source' = IF r.ret = None THEN prediction_source ELSE r.pred
       /\ lastCall' = "create_yield_prediction_plot"
       /\ ret' = r.ret
       /\ exc' = r.exc
       /\ UNCHANGED <<disk, data_manager, layout, layoutLog, fresh, sinceLoad, cdsLog, risk>>

GetParcelleOptions ==
    LET r == get_parcelle_options(data_manager)
    IN /\ PythonPhase
       /\ lastCall' = "get_parcelle_options"
       /\ ret' = r.ret
       /\ exc' = r.exc
       /\ UNCHANGED <<disk, data_manager, dashboard, ui, fresh, sinceLoad, cdsLog, risk>>

CreateLayout(raisesYield, raisesNdvi, raisesColumn) ==
    LET r == create_layout(dashboard, data_manager, raisesYield, raisesNdvi, raisesColumn)
    IN /\ PythonPhase
       /\ dashboard' = r.self
       /\ select' = IF r.ret = None THEN None ELSE r.select
       /\ layout' = r.ret
       /\ layoutLog' = [options |-> get_parcelle_options(data_manager).ret.val,
                        built |-> IF get_parcelle_options(data_manager).ret.val = <<>>
                                  THEN {} ELSE r.select.callbacks]
       /\ lastCall' = "create_layout"
       /\ ret' = r.ret
       /\ exc' = r.exc
       /\ UNCHANGED <<disk, data_manager, prediction_source, fresh, sinceLoad, cdsLog, risk>>

\* the user picks another parcel: every registered callback runs to completion
SelectChange(choix, noise) ==
    /\ BrowserPhase
    /\ choix \in Range(select.options)
    /\ choix # select.value
    /\ select' = [select EXCEPT !.value = choix]
    /\ dashboard' =
         [dashboard EXCEPT
            !.yield_source = IF "yield" \in select.callbacks
                             THEN callback_yield(dashboard.full_yield_source, @, choix)
                             ELSE @,
            !.ndvi_source = IF "ndvi" \in select.callbacks
                            THEN callback_ndvi(dashboard.full_ndvi_source, @, choix)
                            ELSE @,
            !.stress_source = IF "stress" \in select.callbacks
                              THEN callback_stress(dashboard.full_stress_source, @, choix)
                              ELSE @]
    /\ prediction_source' =
         IF "pred" \in select.callbacks
         THEN callback_pred(dashboard.full_yield_source, prediction_source, choix, noise)
         ELSE prediction_source
    /\ lastCall' = "select_change"
    /\ ret' = None
    /\ exc' = NoExc
    /\ UNCHANGED <<disk, data_manager, layout, layoutLog, fresh, sinceLoad, cdsLog, risk>>

Next ==
    \/ \E failAt \in 0..4 : LoadData(failAt)
    \/ PrepareFeatures
    \/ \E failAt \in 0..4 : NewAgriculturalDashboard(failAt)
    \/ \E raises \in BOOLEAN : CreateYieldHistoryPlot(raises)
    \/ \E raises \in BOOLEAN : CreateNdviTemporalPlot(raises)
    \/ \E raises \in BOOLEAN : CreateStressMatrix(raises)
    \/ \E raises \in BOOLEAN : CreateYieldPredictionPlot(raises)
    \/ GetParcelleOptions
    \/ \E a, b, c \in BOOLEAN : CreateLayout(a, b, c)
    \/ \E choix \in Parcels, noise \in NoiseSamples : SelectChange(choix, noise)

Spec == Init /\ [][Next]_vars

\* calculate_risk_metrics on its own: the caller's table is any bounded input
InitRisk ==
    /\ disk = RefDisk
    /\ data_manager = NewManager
    /\ dashboard = None
    /\ select = None
    /\ prediction_source = None
    /\ layout = None
    /\ lastCall = "AgriculturalDataManager"
    /\ ret = None
    /\ exc = NoExc
    /\ fresh = {}
    /\ sinceLoad = <<>>
    /\ cdsLog = None
    /\ layoutLog = None
    /\ riskData \in RiskInputs
    /\ riskRets = <<>>

\* a caller runs data_manager.calculate_risk_metrics(data) on the same table
CalculateRiskMetrics ==
    LET r == calculate_risk_metrics(riskData)
    IN /\ Len(riskRets) < MaxRiskCalls
       /\ riskData' = r.data
       /\ riskRets' = Append(riskRets, r.ret)
       /\ lastCall' = "calculate_risk_metrics"
       /\ ret' = r.ret
       /\ exc' = NoExc
       /\ UNCHANGED <<disk, data_manager, dashboard, ui, fresh, sinceLoad, cdsLog>>

NextRisk == CalculateRiskMetrics

SpecRisk == InitRisk /\ [][NextRisk]_vars

\* ------------------------------------------------------------------ claims
Tables == {"monitoring_data", "weather_data", "soil_data", "yield_history"}
PidsOf(rows) == {rows[i].parcelle_id : i \in 1..Len(rows)}
Ascending(ps) == \A i \in 1..(Len(ps) - 1) : PidRank(ps[i]) < PidRank(ps[i + 1])
SourcesPrepared ==
    /\ cdsLog # None
    /\ cdsLog.load = NoExc /\ cdsLog.prepare = NoExc /\ cdsLog.missing = {}

\* C1: after one load_data, every prepare_features call made with no reload
\* in between succeeds and returns the feature table of the first call.
C1_PrepareFeaturesRepeatable ==
    (Len(sinceLoad) >= 1 /\ sinceLoad[1].exc = NoExc)
        => \A k \in 1..Len(sinceLoad) : sinceLoad[k] = sinceLoad[1]

\* C2: create_data_sources, and so the constructor, never raises; when the
\* load fails, prepare_features fails or a required column is missing, it
\* returns with yield_source and ndvi_source both None.
C2_CreateDataSourcesNeverRaises ==
    lastCall = "AgriculturalDashboard"
        => /\ exc = NoExc
           /\ ~SourcesPrepared
                => /\ dashboard.yield_source = None
                   /\ dashboard.ndvi_source = None

\* the constructor has run on files whose monitoring table has no ndvi
\* column: the feature table is kept, both sources are None
C2_Witness ==
    /\ lastCall = "AgriculturalDashboard"
    /\ cdsLog.load = NoExc /\ cdsLog.prepare = NoExc
    /\ cdsLog.missing = {"ndvi"}
    /\ dashboard.features # None
    /\ dashboard.yield_source = None /\ dashboard.ndvi_source = None

ChartMethods == {"create_yield_history_plot", "create_ndvi_temporal_plot",
                 "create_stress_matrix", "create_yield_prediction_plot"}

\* C3: in every dashboard state each chart constructor returns a chart or
\* None, get_parcelle_options a list and create_layout a layout or None, and
\* none of them lets an exception reach its caller.
C3_DashboardMethodsNeverRaise ==
    /\ lastCall \in ChartMethods
         => exc = NoExc /\ (ret = None \/ ret.kind = "figure")
    /\ lastCall = "get_parcelle_options"
         => exc = NoExc /\ ret # None /\ ret.kind = "list"
    /\ lastCall = "create_layout"
         => exc = NoExc /\ (ret = None \/ ret.kind = "column")

\* create_stress_matrix has been called on a dashboard whose
\* create_data_sources failed: features and both sources are None
C3_Witness ==
    /\ lastCall = "create_stress_matrix"
    /\ dashboard.features = None
    /\ dashboard.yield_source = None /\ dashboard.ndvi_source = None
    /\ ret = None /\ exc = NoExc

\* the charts of the dashboard that can be built when create_layout returns:
\* the two it built, and the other two if their constructors succeed
Constructible ==
    layoutLog.built
    \cup (IF create_stress_matrix(dashboard, CallerSelect, FALSE).ret # None
          THEN {"stress"} ELSE {})
    \cup (IF create_yield_prediction_plot(dashboard, CallerSelect, FALSE).ret # None
          THEN {"pred"} ELSE {})
ChartOrder == <<"yield", "ndvi", "stress", "pred">>

\* C4: create_layout returns None exactly when there is no parcel or none of
\* the four charts could be built; otherwise it returns the selector followed
\* by every one of the four charts that could be built.
C4_LayoutHoldsAllFourCharts ==
    lastCall = "create_layout"
        => IF layoutLog.options = <<>> \/ Constructible = {}
           THEN layout = None
           ELSE /\ layout # None
                /\ layout.children =
                     <<"select">> \o SelectSeq(ChartOrder, LAMBDA c : c \in Constructible)

\* the rows of a source whose parcelle_id is choix, every column
RowsOf(full, choix) ==
    LET indices == HitsNoDate(full, choix)
    IN [k \in DOMAIN full |-> [j \in 1..Len(indices) |-> full[k][indices[j]]]]
\* the same rows by ascending date
RowsOfByDate(full, choix) ==
    LET indices == SortValues(Hits(full, choix), "date")
    IN [k \in DOMAIN full |-> [j \in 1..Len(indices) |-> full[k][indices[j].pos]]]
FullYield ==
    ColumnDataSource(View(dashboard.features, {"parcelle_id", "date", "rendement_estime"}),
                     {"parcelle_id", "date", "rendement_estime"})
FullNdvi ==
    ColumnDataSource(View(dashboard.features, {"parcelle_id", "date", "ndvi"}),
                     {"parcelle_id", "date", "ndvi"})

\* C5: after a selection change on a dashboard whose sources were prepared,
\* each chart shows exactly the rows of its full dataset whose parcelle_id is
\* the selected value: by date for the yield chart, in source order for the
\* NDVI chart and the stress matrix.
C5_ChartsShowSelectedParcel ==
    (lastCall = "select_change" /\ SourcesPrepared)
        => /\ "yield" \in select.callbacks
                => dashboard.yield_source = RowsOfByDate(FullYield, select.value)
           /\ "ndvi" \in select.callbacks
                => dashboard.ndvi_source = RowsOf(FullNdvi, select.value)
           /\ "stress" \in select.callbacks
                => dashboard.stress_source
                     = RowsOf(dashboard.full_stress_source, select.value)

ShowsOnly(source, choix) ==
    source # None
        => \A i \in 1..Len(source["parcelle_id"]) : source["parcelle_id"][i] = choix

\* C6: right after create_layout, before any selection change, the yield and
\* the NDVI chart show only rows of the parcel the selector is set to.
C6_ChartsKeyedToSelectorWhenBuilt ==
    (lastCall = "create_layout" /\ layout # None)
        => /\ "yield" \in select.callbacks
                => ShowsOnly(dashboard.yield_source, select.value)
           /\ "ndvi" \in select.callbacks
                => ShowsOnly(dashboard.ndvi_source, select.value)

LoadFailed ==
    \/ lastCall = "load_data" /\ exc # NoExc
    \/ lastCall = "AgriculturalDashboard" /\ cdsLog.load # NoExc

\* C7: a load_data in which a read fails leaves the manager with none of the
\* tables of that load: it never holds tables read by the failed load next
\* to tables that load did not read.
C7_LoadDataAllOrNothing ==
    LoadFailed => \A t \in Tables : ~(t \in fresh /\ data_manager[t] # None)

\* C8: the table prepare_features returns has no row of a parcel that is
\* absent from the soil table.
C8_NoRowWithoutSoil ==
    /\ (lastCall = "prepare_features" /\ exc = NoExc)
         => PidsOf(ret.rows) \subseteq PidsOf(data_manager.soil_data.rows)
    /\ (lastCall = "AgriculturalDashboard" /\ dashboard.features # None)
         => PidsOf(dashboard.features.rows) \subseteq PidsOf(data_manager.soil_data.rows)

\* prepare_features has returned a table although monitoring holds a parcel
\* the soil table does not know
C8_Witness ==
    /\ lastCall = "prepare_features" /\ exc = NoExc
    /\ ret.rows # <<>>
    /\ PidsOf(data_manager.monitoring_data.rows)
         \ PidsOf(data_manager.soil_data.rows) # {}

\* C9: get_parcelle_options returns the distinct parcelle_id values of the
\* monitoring data in ascending order without duplicates, before and after
\* prepare_features has run, and the empty list without monitoring data.
C9_ParcelleOptionsSortedDistinct ==
    lastCall = "get_parcelle_options"
        => /\ exc = NoExc
           /\ IF data_manager.monitoring_data = None
              THEN ret = ListOf(<<>>)
              ELSE /\ ret.kind = "list"
                   /\ Range(ret.val) = PidsOf(data_manager.monitoring_data.rows)
                   /\ Ascending(ret.val)

\* the options of monitoring data P002, P001, P001 that prepare_features
\* has re-indexed are P001, P002
C9_Witness ==
    /\ lastCall = "get_parcelle_options"
    /\ data_manager.monitoring_data # None
    /\ data_manager.monitoring_data.index = "date"
    /\ ColumnOf(data_manager.monitoring_data.rows, "parcelle_id")
         = <<"P002", "P001", "P001">>
    /\ ret = ListOf(<<"P001", "P002">>)

\* C10: calculate_risk_metrics returns, for every input row, one row holding
\* exactly parcelle_id, date and risk_score = 0.5 * stress_hydrique
\* + 0.3 * biomasse_estimee, and a second call on the same table returns
\* the same.
C10_RiskScoreLinearAndRepeatable ==
    \A k \in 1..Len(riskRets) :
        /\ riskRets[k].cols = {"parcelle_id", "date", "risk_score"}
        /\ Len(riskRets[k].rows) = Len(riskData.rows)
        /\ \A i \in 1..Len(riskData.rows) :
              riskRets[k].rows[i] =
                  [parcelle_id |-> riskData.rows[i].parcelle_id,
                   date |-> riskData.rows[i].date,
                   risk_score |-> 5 * riskData.rows[i].stress_hydrique
                                  + 3 * riskData.rows[i].biomasse_estimee]
        /\ riskRets[k] = riskRets[1]

\* two calls on a table with stress 0.4 and biomasse 2.0: risk_score 0.80
C10_Witness ==
    /\ Len(riskRets) = 2
    /\ \E i \in 1..Len(riskData.rows) :
          /\ riskData.rows[i].stress_hydrique = 4
          /\ riskData.rows[i].biomasse_estimee = 20
          /\ riskRets[2].rows[i].risk_score = 80

\* the yield-history records a feature row may draw on: same parcel, dated
\* on or before the row's date
YieldCandidates(row, yld) ==
    {j \in 1..Len(yld) : /\ yld[j].parcelle_id = row.parcelle_id
                         /\ yld[j].date <= row.date}

\* C11: in the table prepare_features holds before normalisation, every row
\* carries the rendement_estime of the yield-history record of its own parcel
\* with the greatest date not after the row's date; no row is left that has
\* no such record.
C11_YieldFromLatestPriorRecordOfParcel ==
    \A k \in 1..Len(sinceLoad) :
        sinceLoad[k].exc = NoExc
            => \A i \in 1..Len(sinceLoad[k].merged.rows) :
                  LET row == sinceLoad[k].merged.rows[i]
                      yld == data_manager.yield_history.rows
                      cands == YieldCandidates(row, yld)
                  IN /\ cands # {}
                     /\ \E j \in cands :
                           /\ \A m \in cands : yld[m].date <= yld[j].date
                           /\ row.rendement_estime = yld[j].rendement_estime

\* yield history P001 on day 1 and P002 on day 3, monitoring of both parcels
\* in the first month and of P001 in the second: the P002 row has only a
\* later record and is gone, the second P001 row keeps the day-1 estimate of
\* P001 although the P002 record is nearer in time
C11_Witness ==
    /\ lastCall = "prepare_features" /\ exc = NoExc
    /\ data_manager.yield_history.rows = <<YieldRow("P001", 1), YieldRow("P002", 3)>>
    /\ "P002" \in PidsOf(data_manager.monitoring_data.rows)
    /\ Len(sinceLoad[1].merged.rows) = 2
    /\ \A i \in 1..2 :
          /\ sinceLoad[1].merged.rows[i].parcelle_id = "P001"
          /\ sinceLoad[1].merged.rows[i].rendement_estime
                = YieldRow("P001", 1).rendement_estime
    /\ sinceLoad[1].merged.rows[2].date >= 3

\* the number of feature rows in a bucket
RowsInBucket(pid, tb, sb) ==
    Cardinality({i \in 1..Len(dashboard.features.rows) :
        /\ dashboard.features.rows[i].parcelle_id = pid
        /\ dashboard.features.rows[i].temp_bin = tb
        /\ dashboard.features.rows[i].stress_bin = sb})
StressMatrixBuilt ==
    /\ lastCall = "create_stress_matrix"
    /\ dashboard.features # None
    /\ dashboard.full_stress_source # None

\* C12: once create_stress_matrix has built its matrix, every feature row has
\* temp_bin the greatest multiple of 5 not above its temperature and
\* stress_bin the greatest multiple of 0.1 not above its stress_hydrique; the
\* matrix has one entry per distinct (parcelle_id, temp_bin, stress_bin) of
\* the feature rows, count is the number of rows in the bucket, norm_count is
\* count over the largest count, lies in [0,1] and is 1 for the largest.
C12_StressMatrixFloorsAndNormalises ==
    StressMatrixBuilt
        => LET rows == dashboard.features.rows
               m == dashboard.full_stress_source
               n == Len(m["count"])
               Key(i) == <<m["parcelle_id"][i], m["temp_bin"][i], m["stress_bin"][i]>>
           IN /\ \A i \in 1..Len(rows) :
                    /\ rows[i].temp_bin % (TempBinWidth * Scale) = 0
                    /\ rows[i].temp_bin <= rows[i].temperature
                    /\ rows[i].temperature < rows[i].temp_bin + TempBinWidth * Scale
                    /\ rows[i].stress_bin % (Scale \div 10) = 0
                    /\ rows[i].stress_bin <= rows[i].stress_hydrique
                    /\ rows[i].stress_hydrique < rows[i].stress_bin + Scale \div 10
              /\ \A i, j \in 1..n : Key(i) = Key(j) => i = j
              /\ {Key(i) : i \in 1..n}
                    = {<<r.parcelle_id, r.temp_bin, r.stress_bin>> : r \in Range(rows)}
              /\ \A i \in 1..n :
                    /\ m["count"][i] = RowsInBucket(Key(i)[1], Key(i)[2], Key(i)[3])
                    /\ \A j \in 1..n :
                          m["count"][j] * m["norm_count"][i]
                            = m["count"][i] * m["norm_count"][j]
                    /\ m["norm_count"][i] \in 0..Scale
              /\ \E i \in 1..n : m["norm_count"][i] = Scale

NoNulls(t) == \A i \in 1..Len(t.rows) :
                  \A c \in t.cols \ {"parcelle_id"} : t.rows[i][c] # Null

\* C13: once create_data_sources has returned, yield_source and ndvi_source
\* are both set or both None; the feature table it keeps has no null value,
\* and when it is kept with all required columns both sources hold one entry
\* per feature row.
C13_SourcesSetTogether ==
    dashboard # None
        => /\ dashboard.yield_source = None <=> dashboard.ndvi_source = None
           /\ dashboard.features # None => NoNulls(dashboard.features)
           /\ (SourcesPrepared /\ lastCall = "AgriculturalDashboard")
                => /\ dashboard.yield_source # None
                   /\ Len(dashboard.yield_source["parcelle_id"])
                        = Len(dashboard.features.rows)
                   /\ Len(dashboard.ndvi_source["parcelle_id"])
                        = Len(dashboard.features.rows)

\* the constructor has returned with both sources set although the merge
\* left a parcel of the monitoring data without yield estimate: its row was
\* dropped before the views were taken
C13_Witness ==
    /\ lastCall = "AgriculturalDashboard"
    /\ SourcesPrepared
    /\ dashboard.yield_source # None /\ dashboard.ndvi_source # None
    /\ PidsOf(data_manager.monitoring_data.rows)
         \ PidsOf(data_manager.yield_history.rows) # {}
    /\ PidsOf(dashboard.features.rows) # PidsOf(data_manager.monitoring_data.rows)

WellFormed(source) ==
    source # None
        => \A a, b \in DOMAIN source : Len(source[a]) = Len(source[b])

\* C14: after a selection change, the visible source of every chart whose
\* callback ran has columns of one length: yield, NDVI, prediction and
\* stress matrix.
C14_SourcesStayWellFormed ==
    lastCall = "select_change"
        => /\ "yield" \in select.callbacks => WellFormed(dashboard.yield_source)
           /\ "ndvi" \in select.callbacks => WellFormed(dashboard.ndvi_source)
           /\ "pred" \in select.callbacks => WellFormed(prediction_source)
           /\ "stress" \in select.callbacks => WellFormed(dashboard.stress_source)

====
